---- MODULE Spec2Model ----
(***************************************************************************)
(* Model of the real-press ML service (ml-service/app): the detector       *)
(* lifecycle (main.lifespan, CNNDetector), the image endpoint              *)
(* (routers/image.py) and the frame-extraction endpoint (routers/video.py).*)
(*                                                                         *)
(* One request is in flight at a time.  Lifespan events interleave with a  *)
(* request only where the handler awaits (before a request and during the  *)
(* image download); the video handler never reads the detector.            *)
(***************************************************************************)
EXTENDS Integers, Sequences, FiniteSets, TLC

\* ------------------------------------------------------------------ bounds
\* Frame counts of the bounded family of videos: -1 .. MaxTotal.
MaxTotal == 4
\* Frames with an index below MaxBad may be undecodable.
MaxBad == 2
\* Requested max_frames of the bounded family: 1 .. MaxReq.
MaxReq == 2
\* Configured max_frames_per_video of the bounded family: 1 .. MaxCfg.
MaxCfg == 2
\* Number of CNNDetector instances the lifespan may create (restarts).
MaxDetectors == 2
\* Number of temporary files that may exist at once.
MaxFiles == 2

\* ------------------------------------------------------- program constants
\* Settings.max_frames_per_video
DefaultMaxFramesPerVideo == 20
\* Settings.max_video_duration_seconds
MaxVideoDurationSeconds == 300
\* ExtractFramesRequest.max_frames: default, ge, le
DefaultMaxFrames == 20
MinMaxFrames == 1
MaxMaxFrames == 60

\* Optional[str]: None, or a string (a sequence of characters).
None == [none |-> TRUE, s |-> <<>>]
Some(s) == [none |-> FALSE, s |-> s]
\* Python truthiness of an Optional[str]: None and "" are falsy.
Truthy(x) == ~x.none /\ x.s # <<>>

Min(a, b) == IF a <= b THEN a ELSE b
Max(a, b) == IF a >= b THEN a ELSE b
Abs(a) == IF a >= 0 THEN a ELSE -a

VARIABLES
    settings,      \* get_settings(): fixed for the life of the process
    phase,         \* lifespan: "down" (before startup / after shutdown), "up"
    detector,      \* main.detector: 0 (None) or an instance id
    _detector,     \* routers.image._detector: 0 (None) or an instance id
    _model,        \* CNNDetector._model is not None, per instance id
    pc,            \* position of the request in flight
    request,       \* the request body
    response,      \* how the handler was left
    io,            \* what the request has started: download, decode, detect, load
    image,         \* detect_image's local: the decoded image, or "none"
    video_path,    \* extract_video_frames' local: 0 (None) or a file name
    tmpfiles,      \* names of the temporary files that exist on disk
    video,         \* the downloaded video as cv2 sees it
    cap,           \* the cv2.VideoCapture handle: created / released counts
    frame,         \* extract_frames' locals
    reads          \* the frame indices cap.read() was attempted at, in order

vars == <<settings, phase, detector, _detector, _model, pc, request, response,
          io, image, video_path, tmpfiles, video, cap, frame, reads>>

lifeVars == <<phase, detector, _detector, _model>>
videoVars == <<video_path, tmpfiles, video, cap, frame, reads>>

\* ------------------------------------------------------------- responses
NoResponse == [status |-> 0, kind |-> "none", score |-> -1, confidence |-> -1]
\* raise HTTPException(status_code=status, detail=kind)
HTTPError(status, kind) ==
    [status |-> status, kind |-> kind, score |-> -1, confidence |-> -1]
\* An exception that is no HTTPException leaves the handler as it is.
Raised(kind) == [status |-> -1, kind |-> kind, score |-> -1, confidence |-> -1]
Ok(score, confidence) ==
    [status |-> 200, kind |-> "ok", score |-> score, confidence |-> confidence]

\* What the request in flight has done so far: started a download, had it
\* time out, started a base64 decode, called the detector, loaded the model,
\* run inference past inference_timeout_seconds, created a temporary file
\* (its name, 0 for none), had os.unlink fail; and whether the detector was
\* set and loaded when the request arrived.
NoIo == [download |-> FALSE, timed_out |-> FALSE, decode |-> FALSE,
         detect |-> FALSE, load |-> FALSE, overran |-> FALSE,
         tempfile |-> 0, unlink_failed |-> FALSE, arrived_loaded |-> FALSE]
NoVideo == [opens |-> FALSE, total_frames |-> 0, fps |-> 0, bad |-> {}]
NoCap == [created |-> 0, released |-> 0]
NoFrame == [fps |-> 0, total_frames |-> 0, duration |-> <<0, 1>>,
            actual_max_frames |-> 0, frame_interval |-> 0, i |-> 0,
            frames_base64 |-> <<>>, frame_indices |-> <<>>,
            returned |-> FALSE, extracted_count |-> 0, duration_checks |-> 0]
NoRequest == [endpoint |-> "none", image_url |-> None, image_base64 |-> None,
              max_frames |-> 0]
\* ExtractFramesResponse(**result)
FramesOk == [status |-> 200, kind |-> "frames", score |-> -1, confidence |-> -1]

\* --------------------------------------------------------------- inputs
ConfiguredMaxFrames == (1 .. MaxCfg) \cup {DefaultMaxFramesPerVideo}

UrlInputs == {None, Some(<<>>), Some(<<"u">>)}
\* Inline payloads: "v" stands for a valid base64 image payload, "x" for an
\* invalid one, "p" for a data-URL prefix.
Base64Inputs ==
    {None, Some(<<>>), Some(<<"v">>), Some(<<"x">>),
     Some(<<"p", ",", "v">>), Some(<<"p", ",", "x">>), Some(<<"x", ",", "v">>)}

\* max_frames as the request model admits it (Field(ge=1, le=60)).
RequestedMaxFrames ==
    {m \in (1 .. MaxReq) \cup {DefaultMaxFrames} :
        MinMaxFrames <= m /\ m <= MaxMaxFrames}

\* The videos a download may deliver, as cv2 reports them: whether the file
\* opens, CAP_PROP_FRAME_COUNT, CAP_PROP_FPS, and the frames whose read fails.
\* A bounded family, and the two videos of the documented scenarios
\* (100 frames at 10 fps; 400 frames at 1 fps).
\* total_frames is int(cap.get(CAP_PROP_FRAME_COUNT)): container metadata
\* whose sign the code does not check, so the family includes -1.
BadSets == SUBSET (0 .. MaxBad - 1)
Videos ==
    {NoVideo}
    \cup [opens : {TRUE}, total_frames : -1 .. MaxTotal, fps : {0, 1},
          bad : BadSets]
    \cup [opens : {TRUE}, total_frames : {100}, fps : {10}, bad : BadSets]
    \cup [opens : {TRUE}, total_frames : {400}, fps : {1}, bad : BadSets]

\* ------------------------------------------------------------------ Init
Init ==
    /\ settings \in [max_frames_per_video : ConfiguredMaxFrames,
                     max_video_duration_seconds : {MaxVideoDurationSeconds}]
    /\ phase = "down"
    /\ detector = 0
    /\ _detector = 0
    /\ _model = [d \in 1 .. MaxDetectors |-> FALSE]
    /\ pc = "idle"
    /\ request = NoRequest
    /\ response = NoResponse
    /\ io = NoIo
    /\ image = "none"
    /\ video_path = 0
    /\ tmpfiles = {}
    /\ video = NoVideo
    /\ cap = NoCap
    /\ frame = NoFrame
    /\ reads = <<>>

\* -------------------------------------------------------------- lifespan
\* Lifespan events happen between requests or while a handler awaits.
AtAwait == pc \in {"idle", "download_image"}

\* lifespan, up to the yield: detector = CNNDetector(); detector.load();
\* set_image_detector(detector).  CNNDetector.load sets _model.
LifespanStartup ==
    /\ AtAwait
    /\ phase = "down"
    /\ detector < MaxDetectors
    /\ detector' = detector + 1
    /\ _model' = [_model EXCEPT ![detector + 1] = TRUE]
    /\ _detector' = detector + 1
    /\ phase' = "up"
    /\ UNCHANGED <<settings, pc, request, response, io, image, videoVars>>

\* lifespan, up to the yield, when _create_model raises inside load():
\* the new instance is main.detector, its _model stays None, and
\* set_image_detector is not reached.
LifespanStartupFails ==
    /\ AtAwait
    /\ phase = "down"
    /\ detector < MaxDetectors
    /\ detector' = detector + 1
    /\ UNCHANGED <<settings, phase, _detector, _model, pc, request, response,
                   io, image, videoVars>>

\* lifespan, after the yield: detector.unload() sets _model = None.
LifespanShutdown ==
    /\ AtAwait
    /\ phase = "up"
    /\ _model' = IF detector # 0 THEN [_model EXCEPT ![detector] = FALSE]
                 ELSE _model
    /\ phase' = "down"
    /\ UNCHANGED <<settings, detector, _detector, pc, request, response, io,
                   image, videoVars>>

\* CNNDetector.is_loaded
is_loaded(d) == d # 0 /\ _model[d]

\* ---------------------------------------------- CNNDetector (cnn_detector.py)
\* Scores and distances are in eighths (score = s / 8); confidences are in
\* four-hundredths (0.3 = 120, 0.5 = 200, 0.95 = 380, 1.0 = 400).
Scores == 0 .. 8

\* distance ** 0.7 in eighths, rounded down: the largest r with
\* (r/8)^10 <= (d/8)^7.  Exact at d = 0 and d = 8.
Pow07(d) ==
    IF d = 8 THEN 8
    ELSE CHOOSE r \in 0 .. 7 : /\ r^10 <= d^7 * 8^3
                               /\ (r + 1)^10 > d^7 * 8^3

\* CNNDetector._calculate_confidence without its clamp.
CalculateConfidenceUnclamped(score) ==
    LET distance == Abs(score - 4) * 2
    IN  200 + 25 * Pow07(distance)

\* CNNDetector._calculate_confidence
CalculateConfidence(score) ==
    LET distance == Abs(score - 4) * 2
        confidence == 200 + 25 * Pow07(distance)
    IN  Min(Max(confidence, 120), 380)

\* -------------------------------------------------- routers/image.py
\* The content-length header of a response: absent, a number of bytes, or
\* text that is no number.
ContentLengths ==
    {[present |-> FALSE, numeric |-> FALSE, value |-> 0],
     [present |-> TRUE, numeric |-> FALSE, value |-> 0],
     [present |-> TRUE, numeric |-> TRUE, value |-> 0],
     [present |-> TRUE, numeric |-> TRUE, value |-> 10485760],
     [present |-> TRUE, numeric |-> TRUE, value |-> 10485761]}

\* What client.get / raise_for_status does: "http_status" (HTTPStatusError),
\* "connect" and "timeout" (both httpx.RequestError), or "ok".
FetchOutcomes == {"http_status", "connect", "timeout", "ok"}

\* int(settings.max_image_size_mb * 1024 * 1024)
max_size == 10 * 1024 * 1024

\* download_image after client.get returns: how it leaves, and the image.
download_image(outcome, is_image, content_length, body_valid) ==
    IF outcome = "http_status"
    THEN [resp |-> HTTPError(400, "download_http_status"), image |-> "none"]
    ELSE IF outcome \in {"connect", "timeout"}
    THEN [resp |-> HTTPError(400, "download_request_error"), image |-> "none"]
    ELSE IF ~is_image
    THEN [resp |-> HTTPError(400, "not_an_image"), image |-> "none"]
    ELSE IF content_length.present /\ ~content_length.numeric
    THEN [resp |-> Raised("ValueError"), image |-> "none"]
    ELSE IF content_length.value > max_size
    THEN [resp |-> HTTPError(400, "image_too_large"), image |-> "none"]
    ELSE IF ~body_valid
    THEN [resp |-> HTTPError(400, "invalid_image_data"), image |-> "none"]
    ELSE [resp |-> NoResponse, image |-> "image"]

\* data.split(",", 1)[1] when "," is in data, else data.
RECURSIVE AfterFirstComma(_)
AfterFirstComma(data) ==
    IF data = <<>> THEN <<>>
    ELSE IF Head(data) = "," THEN Tail(data)
    ELSE AfterFirstComma(Tail(data))
HasComma(data) == \E k \in 1 .. Len(data) : data[k] = ","

\* decode_base64_image: the payload decodes iff it is a valid image payload.
decode_base64_image(data) ==
    LET payload == IF HasComma(data) THEN AfterFirstComma(data) ELSE data
    IN  IF payload = <<"v">>
        THEN [resp |-> NoResponse, image |-> "image"]
        ELSE [resp |-> HTTPError(400, "invalid_base64_image"), image |-> "none"]

\* detect_image's checks with the both-inputs check left out.
DetectImageGateNoBothCheck(d, image_url, image_base64) ==
    IF d = 0 THEN HTTPError(503, "model_not_loaded")
    ELSE IF ~Truthy(image_url) /\ ~Truthy(image_base64)
    THEN HTTPError(400, "no_input")
    ELSE NoResponse

\* The checks detect_image makes before it loads the image, in the code's
\* order: the detector reference, both inputs, no input.  NoResponse when
\* the request passes them.
DetectImageGate(d, image_url, image_base64) ==
    IF d = 0 THEN HTTPError(503, "model_not_loaded")
    ELSE IF Truthy(image_url) /\ Truthy(image_base64)
    THEN HTTPError(400, "both_inputs")
    ELSE IF ~Truthy(image_url) /\ ~Truthy(image_base64)
    THEN HTTPError(400, "no_input")
    ELSE NoResponse

\* detect_image, from its entry to its first await (download_image's
\* client.get) or to the synchronous inline decode.
DetectImageBegin ==
    /\ pc = "idle"
    /\ \E image_url \in UrlInputs, image_base64 \in Base64Inputs :
        LET gate == DetectImageGate(_detector, image_url, image_base64)
            arrived == [NoIo EXCEPT !.arrived_loaded =
                           is_loaded(_detector)]
        IN  /\ request' = [endpoint |-> "detect_image", image_url |-> image_url,
                           image_base64 |-> image_base64, max_frames |-> 0]
            /\ IF gate # NoResponse
               THEN /\ response' = gate
                    /\ pc' = "done"
                    /\ io' = arrived
               ELSE /\ response' = NoResponse
                    /\ IF Truthy(image_url)
                       THEN /\ pc' = "download_image"
                            /\ io' = [arrived EXCEPT !.download = TRUE]
                       ELSE /\ pc' = "decode_base64"
                            /\ io' = arrived
    /\ image' = "none"
    /\ UNCHANGED <<settings, lifeVars, videoVars>>

\* download_image, from the return of client.get to its end.
DownloadImage ==
    /\ pc = "download_image"
    /\ \E outcome \in FetchOutcomes, is_image \in BOOLEAN,
          content_length \in ContentLengths, body_valid \in BOOLEAN :
        LET r == download_image(outcome, is_image, content_length, body_valid)
        IN  /\ image' = r.image
            /\ response' = r.resp
            /\ pc' = IF r.resp = NoResponse THEN "detect" ELSE "done"
            /\ io' = [io EXCEPT !.timed_out = (outcome = "timeout")]
    /\ UNCHANGED <<settings, lifeVars, request, videoVars>>

\* image = decode_base64_image(request.image_base64)
DecodeBase64 ==
    /\ pc = "decode_base64"
    /\ LET r == decode_base64_image(request.image_base64.s)
       IN  /\ image' = r.image
           /\ response' = r.resp
           /\ pc' = IF r.resp = NoResponse THEN "detect" ELSE "done"
    /\ io' = [io EXCEPT !.decode = TRUE]
    /\ UNCHANGED <<settings, lifeVars, request, videoVars>>

\* _detector.detect(image) inside detect_image's try/except.  detect loads
\* the model when it is not loaded; load or inference may raise, and every
\* exception becomes a 500.  Nothing bounds the time inference takes.
Detect ==
    /\ pc = "detect"
    /\ \E load_ok \in BOOLEAN, infer_ok \in BOOLEAN, slow \in BOOLEAN,
          score \in Scores :
        LET cold == ~is_loaded(_detector)
            loaded == IF cold THEN load_ok ELSE TRUE
        IN  /\ _model' = [_model EXCEPT ![_detector] = loaded]
            /\ io' = [io EXCEPT !.detect = TRUE, !.load = cold,
                                !.overran = loaded /\ slow]
            /\ response' =
                 IF loaded /\ infer_ok
                 THEN Ok(score, CalculateConfidence(score))
                 ELSE HTTPError(500, "detection_failed")
    /\ pc' = "done"
    /\ UNCHANGED <<settings, phase, detector, _detector, request, image,
                   videoVars>>

\* -------------------------------------------------- routers/video.py
\* Python's a // b for any nonzero b (\div is floor division for b > 0).
FloorDiv(a, b) == IF b > 0 THEN a \div b ELSE (-a) \div (-b)

\* tempfile.NamedTemporaryFile picks a name no file has.
FreshName == CHOOSE f \in 1 .. MaxFiles : f \notin tmpfiles

\* What writing the temporary file does: "create_fails" (NamedTemporaryFile
\* raises, no file), "write_fails" (write or close raises, the file exists),
\* or "ok".
WriteOutcomes == {"create_fails", "write_fails", "ok"}

\* extract_video_frames, from its entry to download_video's client.get.
ExtractVideoFramesBegin ==
    /\ pc = "idle"
    /\ Cardinality(tmpfiles) < MaxFiles
    /\ \E max_frames \in RequestedMaxFrames :
        request' = [endpoint |-> "extract_frames", image_url |-> None,
                    image_base64 |-> None, max_frames |-> max_frames]
    /\ pc' = "download_video"
    /\ response' = NoResponse
    /\ io' = [NoIo EXCEPT !.download = TRUE]
    /\ video_path' = 0
    /\ UNCHANGED <<settings, lifeVars, image, tmpfiles, video, cap, frame, reads>>

\* download_video, from the return of client.get to its end; on return the
\* handler assigns video_path.
DownloadVideo ==
    /\ pc = "download_video"
    /\ \E outcome \in FetchOutcomes, written \in WriteOutcomes, v \in Videos :
        /\ io' = [io EXCEPT
               !.timed_out = (outcome = "timeout"),
               !.tempfile = IF outcome = "ok" /\ written # "create_fails"
                            THEN FreshName ELSE 0]
        /\ IF outcome = "http_status"
           THEN /\ response' = HTTPError(400, "download_http_status")
                /\ pc' = "cleanup"
                /\ UNCHANGED <<video_path, tmpfiles, video>>
           ELSE IF outcome \in {"connect", "timeout"}
           THEN /\ response' = HTTPError(400, "download_request_error")
                /\ pc' = "cleanup"
                /\ UNCHANGED <<video_path, tmpfiles, video>>
           ELSE IF written = "create_fails"
           THEN /\ response' = Raised("OSError")
                /\ pc' = "cleanup"
                /\ UNCHANGED <<video_path, tmpfiles, video>>
           ELSE IF written = "write_fails"
           THEN /\ response' = Raised("OSError")
                /\ pc' = "cleanup"
                /\ tmpfiles' = tmpfiles \cup {FreshName}
                /\ UNCHANGED <<video_path, video>>
           ELSE /\ response' = NoResponse
                /\ pc' = "extract_frames"
                /\ tmpfiles' = tmpfiles \cup {FreshName}
                /\ video_path' = FreshName
                /\ video' = v
    /\ UNCHANGED <<settings, lifeVars, request, image, cap, frame, reads>>

\* The duration without the fps > 0 guard.
DurationUnguarded(total_frames, fps) == <<total_frames, fps>>

\* duration = total_frames / fps if fps > 0 else 0, as a fraction.
Duration(total_frames, fps) ==
    IF fps > 0 THEN <<total_frames, fps>> ELSE <<0, 1>>

\* duration > settings.max_video_duration_seconds
TooLong(duration, limit) == duration[1] > limit * duration[2]

\* min(max_frames, settings.max_frames_per_video, total_frames)
ActualMaxFrames(max_frames, max_frames_per_video, total_frames) ==
    Min(Min(max_frames, max_frames_per_video), total_frames)

\* The stride rounded up instead of down.
FrameIntervalCeil(total_frames, actual_max_frames) ==
    Max(1, FloorDiv(total_frames, actual_max_frames) + 1)

\* max(1, total_frames // actual_max_frames), actual_max_frames nonzero
FrameInterval(total_frames, actual_max_frames) ==
    Max(1, FloorDiv(total_frames, actual_max_frames))

\* cap.release() in extract_frames' finally
Release(c) == [c EXCEPT !.released = @ + 1]

\* extract_frames, from cv2.VideoCapture to the entry of the sampling loop.
ExtractFramesOpen ==
    /\ pc = "extract_frames"
    /\ LET opened == [cap EXCEPT !.created = @ + 1]
           fps == video.fps
           total_frames == video.total_frames
           duration == Duration(total_frames, fps)
           actual_max_frames ==
               ActualMaxFrames(request.max_frames,
                               settings.max_frames_per_video, total_frames)
           meta == [frame EXCEPT !.fps = fps, !.total_frames = total_frames,
                                 !.duration = duration,
                                 !.duration_checks = @ + 1]
       IN  IF ~video.opens
           THEN /\ cap' = opened
                /\ response' = HTTPError(400, "could_not_open")
                /\ pc' = "cleanup"
                /\ UNCHANGED frame
           ELSE IF TooLong(duration, settings.max_video_duration_seconds)
           THEN /\ cap' = Release(opened)
                /\ response' = HTTPError(400, "video_too_long")
                /\ pc' = "cleanup"
                /\ frame' = meta
           ELSE IF actual_max_frames = 0
           THEN /\ cap' = Release(opened)
                /\ response' = Raised("ZeroDivisionError")
                /\ pc' = "cleanup"
                /\ frame' = [meta EXCEPT !.actual_max_frames = actual_max_frames]
           ELSE /\ cap' = opened
                /\ response' = NoResponse
                /\ pc' = "loop"
                /\ frame' = [meta EXCEPT
                       !.actual_max_frames = actual_max_frames,
                       !.frame_interval =
                           FrameInterval(total_frames, actual_max_frames),
                       !.i = 0]
    /\ UNCHANGED <<settings, lifeVars, request, io, image, video_path,
                   tmpfiles, video, reads>>

\* The loop's exit test without the break on len(frames_base64).
LoopDoneNoBreak(f) == f.i >= f.total_frames

\* The loop is left when range(0, total_frames, frame_interval) is exhausted
\* or len(frames_base64) >= actual_max_frames.
LoopDone(f) ==
    \/ f.i >= f.total_frames
    \/ Len(f.frames_base64) >= f.actual_max_frames

\* The next index when an index whose read failed is tried a second time.
NextIndexRetry(f) ==
    IF f.i \in video.bad /\ \A k \in 1 .. Len(reads) : reads[k] # f.i
    THEN f.i
    ELSE f.i + f.frame_interval

\* for i in range(0, total_frames, frame_interval): the next index
NextIndex(f) == f.i + f.frame_interval

\* One pass of the sampling loop: the exit test, cap.set, cap.read, and for
\* a frame that was read its conversion and JPEG encoding (which may raise);
\* on exit the result is built and cap is released.
SampleFrame ==
    /\ pc = "loop"
    /\ IF LoopDone(frame)
       THEN /\ frame' = [frame EXCEPT !.returned = TRUE,
                            !.extracted_count = Len(frame.frames_base64)]
            /\ cap' = Release(cap)
            /\ response' = FramesOk
            /\ pc' = "cleanup"
            /\ UNCHANGED reads
       ELSE /\ reads' = Append(reads, frame.i)
            /\ IF frame.i \in video.bad
               THEN /\ frame' = [frame EXCEPT !.i = NextIndex(frame)]
                    /\ UNCHANGED <<cap, response, pc>>
               ELSE \E encoded \in BOOLEAN :
                    IF encoded
                    THEN /\ frame' = [frame EXCEPT
                               !.frames_base64 = Append(@, frame.i),
                               !.frame_indices = Append(@, frame.i),
                               !.i = NextIndex(frame)]
                         /\ UNCHANGED <<cap, response, pc>>
                    ELSE /\ cap' = Release(cap)
                         /\ response' = Raised("cv2.error")
                         /\ pc' = "cleanup"
                         /\ UNCHANGED frame
    /\ UNCHANGED <<settings, lifeVars, request, io, image, video_path,
                   tmpfiles, video>>

\* extract_video_frames' finally: unlink the file video_path names, if it
\* exists; an exception of os.unlink is swallowed.
Cleanup ==
    /\ pc = "cleanup"
    /\ IF video_path # 0 /\ video_path \in tmpfiles
       THEN \E unlinked \in BOOLEAN :
               /\ tmpfiles' = IF unlinked THEN tmpfiles \ {video_path}
                              ELSE tmpfiles
               /\ io' = [io EXCEPT !.unlink_failed = ~unlinked]
       ELSE UNCHANGED <<tmpfiles, io>>
    /\ pc' = "done"
    /\ UNCHANGED <<settings, lifeVars, request, response, image,
                   video_path, video, cap, frame, reads>>

\* The handler has returned or raised; the next request may arrive.
Finish ==
    /\ pc = "done"
    /\ pc' = "idle"
    /\ request' = NoRequest
    /\ response' = NoResponse
    /\ io' = NoIo
    /\ image' = "none"
    /\ video_path' = 0
    /\ video' = NoVideo
    /\ cap' = NoCap
    /\ frame' = NoFrame
    /\ reads' = <<>>
    /\ UNCHANGED <<settings, lifeVars, tmpfiles>>

Next ==
    \/ LifespanStartup
    \/ LifespanStartupFails
    \/ LifespanShutdown
    \/ DetectImageBegin
    \/ DownloadImage
    \/ DecodeBase64
    \/ Detect
    \/ ExtractVideoFramesBegin
    \/ DownloadVideo
    \/ ExtractFramesOpen
    \/ SampleFrame
    \/ Cleanup
    \/ Finish

Spec == Init /\ [][Next]_vars

\* ================================================================ claims
ImageDone == pc = "done" /\ request.endpoint = "detect_image"
VideoDone == pc = "done" /\ request.endpoint = "extract_frames"
\* extract_frames has returned its result dict.
FramesReturned == request.endpoint = "extract_frames" /\ frame.returned

\* C1: when extract_video_frames has returned or raised, the temporary file
\* download_video created for the request no longer exists (os.unlink itself
\* not having failed).
C1_NoTempFileOutlivesRequest ==
    (VideoDone /\ ~io.unlink_failed) => io.tempfile \notin tmpfiles

\* C2: extract_frames on a video that opens and reports total_frames = 0
\* returns normally, with n = 0, no frames and extracted_count = 0.
C2_ZeroFramesReturnsEmpty ==
    (VideoDone /\ cap.created > 0 /\ video.opens /\ video.total_frames = 0)
        => /\ frame.returned
           /\ response = FramesOk
           /\ frame.actual_max_frames = 0
           /\ frame.frames_base64 = <<>>
           /\ frame.extracted_count = 0

\* C3: both handlers are left by a response or by one of the mapped errors
\* (400, 500, 503), never by an exception that is no HTTPException.
C3_NoRawException ==
    pc = "done" => response.status \in {200, 400, 500, 503}

\* detect_image's request has not exactly one of image_url, image_base64.
NotExactlyOne ==
    /\ request.endpoint = "detect_image"
    /\ Truthy(request.image_url) = Truthy(request.image_base64)

\* C4 (as claimed): a detect_image request with both inputs or with neither
\* is rejected with a 400, before any download, decode or detector call.
C4_Original ==
    NotExactlyOne => /\ pc = "done"
                     /\ response.status = 400
                     /\ ~io.download /\ ~io.decode /\ ~io.detect

\* C4 (amended): such a request is rejected before any download, decode or
\* detector call: with 503 when no detector has been set, and otherwise
\* with the 400 of its case (both inputs, no input).
C4_RejectedBeforeIo ==
    NotExactlyOne =>
        /\ pc = "done"
        /\ ~io.download /\ ~io.decode /\ ~io.detect /\ ~io.load
        /\ response =
             IF _detector = 0 THEN HTTPError(503, "model_not_loaded")
             ELSE IF Truthy(request.image_url)
             THEN HTTPError(400, "both_inputs")
             ELSE HTTPError(400, "no_input")

C4_Witness ==
    /\ NotExactlyOne
    /\ Truthy(request.image_url)
    /\ response.status = 400

\* C5: a detect_image request that arrives while the detector has not
\* completed its load (not set, or set and not loaded) fails with 503, and
\* no request loads the model.
C5_ReadinessGate ==
    ImageDone => /\ (~io.arrived_loaded => response.status = 503)
                 /\ ~io.load

\* C6 (as claimed): a successful extract_frames has extracted_count equal to
\* the number of frames returned and at most
\* min(max_frames, max_frames_per_video, total_frames).
C6_Original ==
    FramesReturned =>
        /\ frame.extracted_count = Len(frame.frames_base64)
        /\ frame.extracted_count <= request.max_frames
        /\ frame.extracted_count <= settings.max_frames_per_video
        /\ frame.extracted_count <= video.total_frames

\* C6 (amended): extracted_count equals the number of frames returned and is
\* at most max(0, min(max_frames, max_frames_per_video, total_frames)).
C6_CountBounded ==
    FramesReturned =>
        /\ frame.extracted_count = Len(frame.frames_base64)
        /\ frame.extracted_count <= request.max_frames
        /\ frame.extracted_count <= settings.max_frames_per_video
        /\ frame.extracted_count <= Max(0, video.total_frames)

\* A successful call in which a read failed and frames were still returned,
\* as many as the effective count allows.
C6_Witness ==
    /\ FramesReturned
    /\ \E k \in 1 .. Len(reads) : reads[k] \in video.bad
    /\ frame.extracted_count = 2
    /\ settings.max_frames_per_video = 2

\* A detection that returned a score and its confidence.
Scored == ImageDone /\ response.kind = "ok"

\* C7 (as claimed): the confidence of score 0.5 is 0.3, and that of scores
\* 0.0 and 1.0 is 0.95.
C7_Original ==
    Scored => /\ (response.score = 4 => response.confidence = 120)
              /\ (response.score \in {0, 8} => response.confidence = 380)

\* C7 (amended): the confidence of score 0.5 is 0.5, and that of scores 0.0
\* and 1.0 is 0.95.
C7_FixedPoints ==
    Scored => /\ (response.score = 4 => response.confidence = 200)
              /\ (response.score \in {0, 8} => response.confidence = 380)

C7_Witness == Scored /\ response.score = 4 /\ response.confidence = 200

\* C8: a download that times out is reported as another kind than a
\* connection failure, and scoring that runs past inference_timeout_seconds
\* ends in a timeout error instead of a result.
C8_TimeoutsDistinct ==
    pc = "done" =>
        /\ (io.timed_out => response.kind # "download_request_error")
        /\ (io.overran => response.kind \notin {"ok", "detection_failed"})

\* Every read attempted so far succeeded.
AllReadsSucceed == \A k \in 1 .. Len(reads) : reads[k] \notin video.bad

\* C9: when every read succeeds and total_frames > 0, extract_frames returns
\* exactly n = min(max_frames, max_frames_per_video, total_frames) frames,
\* the k-th from index k * max(1, total_frames // n); 100 frames with n = 20
\* give the indices 0, 5, ..., 95.
C9_EvenSampling ==
    (FramesReturned /\ AllReadsSucceed /\ video.total_frames > 0) =>
        LET T == video.total_frames
            a == IF request.max_frames <= settings.max_frames_per_video
                 THEN request.max_frames ELSE settings.max_frames_per_video
            n == IF a <= T THEN a ELSE T
            q == T \div n
            interval == IF q >= 1 THEN q ELSE 1
        IN  /\ frame.extracted_count = n
            /\ frame.frame_indices = [k \in 1 .. n |-> (k - 1) * interval]
            /\ frame.frames_base64 = frame.frame_indices
            /\ (T = 100 /\ n = 20) =>
                   /\ interval = 5
                   /\ frame.frame_indices = [k \in 1 .. 20 |-> 5 * (k - 1)]

\* The documented scenario: 100 frames, 20 requested, 20 configured.
C9_Witness ==
    /\ FramesReturned
    /\ AllReadsSucceed
    /\ video.total_frames = 100
    /\ request.max_frames = 20
    /\ settings.max_frames_per_video = 20
    /\ frame.extracted_count = 20
    /\ frame.frame_indices[20] = 95

\* The reads that succeeded, in order.
GoodReads == SelectSeq(reads, LAMBDA i : i \notin video.bad)

\* C10: in the sampling loop every attempted index is the previous one plus
\* the interval, starting at 0 (so none is attempted twice); an index whose
\* read fails is not retained and does not count; the retained indices are
\* exactly the indices read successfully, in order: strictly ascending
\* multiples of the interval.
C10_SkipFailedReads ==
    (request.endpoint = "extract_frames" /\ Len(reads) > 0) =>
        /\ reads[1] = 0
        /\ \A k \in 2 .. Len(reads) :
               reads[k] = reads[k - 1] + frame.frame_interval
        /\ frame.frame_interval >= 1
        /\ frame.frame_indices =
               IF response.kind = "cv2.error"
               THEN SubSeq(GoodReads, 1, Len(GoodReads) - 1)
               ELSE GoodReads
        /\ frame.frames_base64 = frame.frame_indices
        /\ \A k \in 1 .. Len(frame.frame_indices) :
               /\ frame.frame_indices[k] % frame.frame_interval = 0
               /\ k > 1 => frame.frame_indices[k - 1] < frame.frame_indices[k]
        /\ Len(frame.frames_base64) <= frame.actual_max_frames

\* A read failed, and a later index was read and retained.
C10_Witness ==
    /\ request.endpoint = "extract_frames"
    /\ Len(reads) >= 2
    /\ reads[1] \in video.bad
    /\ Len(frame.frame_indices) >= 1
    /\ frame.frame_indices[1] > reads[1]

\* extract_frames has been left, by return or by exception.
ExtractFramesLeft ==
    /\ request.endpoint = "extract_frames"
    /\ pc \in {"cleanup", "done"}
    /\ cap.created > 0

\* C11: when extract_frames is left, by return or by any exception (the
\* could-not-open and video-too-long rejections included), the capture
\* handle it created has been released exactly once.
C11_ReleasedExactlyOnce ==
    ExtractFramesLeft => cap.created = 1 /\ cap.released = 1

\* extract_frames has opened the video and is past its duration check.
PastDurationGate ==
    /\ request.endpoint = "extract_frames"
    /\ pc \in {"loop", "cleanup", "done"}
    /\ cap.created > 0
    /\ video.opens

\* C12: the duration (total_frames / fps for fps > 0, else 0) is compared
\* with max_video_duration_seconds once, before any read: a video over the
\* limit is rejected as too long with no read attempted, no other video is,
\* and a video with fps = 0 has duration 0 and passes.
C12_DurationGateFirst ==
    /\ request.endpoint = "extract_frames" =>
           /\ frame.duration_checks <= 1
           /\ Len(reads) > 0 => frame.duration_checks = 1
    /\ PastDurationGate =>
        LET over == /\ video.fps > 0
                    /\ video.total_frames >
                           settings.max_video_duration_seconds * video.fps
        IN  /\ frame.duration_checks = 1
            /\ frame.duration = IF video.fps > 0
                                THEN <<video.total_frames, video.fps>>
                                ELSE <<0, 1>>
            /\ over => /\ response = HTTPError(400, "video_too_long")
                       /\ reads = <<>>
                       /\ pc # "loop"
            /\ ~over => response.kind # "video_too_long"
            /\ video.fps = 0 => response.kind # "video_too_long"

\* The documented scenario: 400 s of video against the 300 s limit.
C12_Witness ==
    /\ PastDurationGate
    /\ video.total_frames = 400
    /\ video.fps = 1
    /\ response = HTTPError(400, "video_too_long")
    /\ reads = <<>>
====
